---- MODULE Spec2Model ----
(***************************************************************************)
(* Model of movie_maker_gui.py: script segmentation, the concurrent audio  *)
(* synthesis stage, the JSON manifest, and the video assembly stage.       *)
(*                                                                         *)
(* Text is a sequence of characters.  The characters that split_script     *)
(* tells apart are named:                                                  *)
(*   "maru"  the Japanese full stop U+3002, the sentence delimiter         *)
(*   "zbang" fullwidth exclamation mark U+FF01                             *)
(*   "zqm"   fullwidth question mark U+FF1F                                *)
(*   "bang"  ASCII '!'      "dot" ASCII '.'      "qm" ASCII '?'            *)
(*   "sp"    a blank        "cr"  carriage return                          *)
(*   "a","b" ordinary letters                                              *)
(***************************************************************************)
EXTENDS Integers, Sequences, FiniteSets, TLC

\* ---------------------------------------------------------------- bounds
MaxLen == 5          \* longest input text given to split_script on its own
MaxWorkers == 2      \* largest worker count of the synthesis pool
MaxScriptLen == 4    \* longest script of the one-slide sources given to the audio stage

\* ---------------------------------------------------------------- text
Delim == "maru"
Whitespace == {"sp", "nl"}
Terminals == {"maru", "zbang", "zqm", "bang", "dot"}
Alphabet == {"a", "sp", "cr", "maru", "bang", "qm"}

\* str.replace("\r", "")
RECURSIVE remove_cr(_)
remove_cr(s) ==
    IF s = <<>> THEN <<>>
    ELSE IF Head(s) = "cr" THEN remove_cr(Tail(s))
         ELSE <<Head(s)>> \o remove_cr(Tail(s))

\* str.lstrip() / str.rstrip() / str.strip()
RECURSIVE lstrip(_)
lstrip(s) ==
    IF s = <<>> THEN <<>>
    ELSE IF Head(s) \in Whitespace THEN lstrip(Tail(s)) ELSE s

RECURSIVE rstrip(_)
rstrip(s) ==
    IF s = <<>> THEN <<>>
    ELSE IF s[Len(s)] \in Whitespace THEN rstrip(SubSeq(s, 1, Len(s) - 1)) ELSE s

strip(s) == rstrip(lstrip(s))

\* str.split(Delim): the fragments between delimiters, n+1 of them for n
\* delimiters, empty fragments included.
RECURSIVE split_on(_, _)
split_on(s, cur) ==
    IF s = <<>> THEN <<cur>>
    ELSE IF Head(s) = Delim THEN <<cur>> \o split_on(Tail(s), <<>>)
         ELSE split_on(Tail(s), Append(cur, Head(s)))

\* the endswith test taken as always true: no delimiter is ever appended
ends_with_terminal_always(chunk) == TRUE

\* str.endswith(tuple of terminal marks)
ends_with_terminal(chunk) == chunk # <<>> /\ chunk[Len(chunk)] \in Terminals

\* the body of split_script's for loop over the fragments
RECURSIVE split_parts(_)
split_parts(frags) ==
    IF frags = <<>> THEN <<>>
    ELSE LET chunk == strip(Head(frags))
             suffix == IF ~ends_with_terminal(chunk) THEN <<Delim>> ELSE <<>>
         IN  IF chunk = <<>> THEN split_parts(Tail(frags))
             ELSE <<chunk \o suffix>> \o split_parts(Tail(frags))

\* split_script without its fallback: `return parts`
split_script_no_fallback(text) == split_parts(split_on(remove_cr(text), <<>>))

split_script(text) ==
    LET cleaned == remove_cr(text)
        parts == split_parts(split_on(cleaned, <<>>))
    IN  IF parts # <<>> THEN parts ELSE <<strip(cleaned)>>

\* ---------------------------------------------------------------- threads
MaxThreads == 2       \* background threads alive at once

Slots == 1..MaxThreads

\* a slot with no live thread
NoThread ==
    [ func |-> "none", stage |-> "none", at |-> "none", segs |-> <<>>, k |-> 0,
      writing |-> <<>> ]

NoThreads == [ t \in Slots |-> NoThread ]

\* ---------------------------------------------------------------- text layout
\* Characters of laid-out text: "W" a full-width glyph, "i" a half-width
\* glyph, "nl" a newline.
LayoutAlphabet == {"W", "i", "nl"}

\* The font rasterizer: the advance of one glyph at a font size, and the
\* kerning between two neighbours.
advance(c, size) == IF c = "W" THEN size ELSE IF c = "i" THEN size \div 2 ELSE 0
kerning(a, b, size) == IF a = "W" /\ b = "i" THEN 0 - 1 ELSE 0

\* draw.textlength(s, font=font) at a font size
RECURSIVE textlength(_, _)
textlength(s, size) ==
    IF s = <<>> THEN 0
    ELSE IF Len(s) = 1 THEN advance(s[1], size)
    ELSE advance(s[1], size) + kerning(s[1], s[2], size) + textlength(Tail(s), size)

\* font.getmetrics(): ascent + descent at a font size
font_height(size) == size + size \div 4

\* re.split(r"\n+", s): the pieces between runs of newlines
RECURSIVE split_newlines(_, _)
split_newlines(s, cur) ==
    IF s = <<>> THEN <<cur>>
    ELSE IF Head(s) = "nl" THEN
            (IF Len(s) > 1 /\ s[2] = "nl" THEN split_newlines(Tail(s), cur)
             ELSE <<cur>> \o split_newlines(Tail(s), <<>>))
         ELSE split_newlines(Tail(s), Append(cur, Head(s)))

\* the test that keeps a character on the current line: never true
\* when the line has a character already and the box is full
keeps_on_line_always(width, max_width, current) == TRUE

\* `width <= max_width or not current`
keeps_on_line(width, max_width, current) == width <= max_width \/ current = <<>>

\* the character loop of wrap_text_lines over one paragraph: the lines it
\* appends, `current` being the line under construction
RECURSIVE wrap_paragraph(_, _, _, _)
wrap_paragraph(chars, current, size, max_width) ==
    IF chars = <<>> THEN (IF current # <<>> THEN <<current>> ELSE <<>>)
    ELSE LET attempt == Append(current, Head(chars))
             width == textlength(attempt, size)
         IN  IF keeps_on_line(width, max_width, current)
             THEN wrap_paragraph(Tail(chars), attempt, size, max_width)
             ELSE <<current>> \o wrap_paragraph(Tail(chars), <<Head(chars)>>, size, max_width)

RECURSIVE wrap_paragraphs(_, _, _)
wrap_paragraphs(paragraphs, size, max_width) ==
    IF paragraphs = <<>> THEN <<>>
    ELSE (IF Head(paragraphs) = <<>> THEN <<>>
          ELSE wrap_paragraph(Head(paragraphs), <<>>, size, max_width))
         \o wrap_paragraphs(Tail(paragraphs), size, max_width)

\* wrap_text_lines(text, font, max_width, draw), the font given by its size
wrap_text_lines(t, size, max_width) ==
    IF t = <<>> THEN <<>>
    ELSE LET lines == wrap_paragraphs(split_newlines(strip(t), <<>>), size, max_width)
         IN  IF lines # <<>> THEN lines ELSE << <<>> >>

\* max(4, int(size * 0.2))
line_spacing_of(size) == IF size \div 5 > 4 THEN size \div 5 ELSE 4

\* line_height * len(lines) + line_spacing * max(0, len(lines) - 1)
total_height(n, line_height, line_spacing) ==
    line_height * n + line_spacing * (IF n - 1 > 0 THEN n - 1 ELSE 0)

\* the tuple (font, lines, line_height, line_spacing) built at one size
layout_at(t, box_w, size) ==
    [ size |-> size,
      lines |-> wrap_text_lines(t, size, box_w),
      line_height |-> font_height(size),
      line_spacing |-> line_spacing_of(size) ]

NoFallback == [ size |-> 0, lines |-> <<>>, line_height |-> 0, line_spacing |-> 0 ]

\* the loop `for size in range(max_size, min_size - 1, -2)` from `size` on,
\* and the statements after it
RECURSIVE fit_from(_, _, _, _, _, _)
fit_from(t, box_w, box_h, size, min_size, fallback) ==
    IF size < min_size THEN fallback
    ELSE LET here == layout_at(t, box_w, size)
         IN  IF total_height(Len(here.lines), here.line_height, here.line_spacing) <= box_h
             THEN here
             ELSE fit_from(t, box_w, box_h, size - 2, min_size, here)

\* fit_text_to_box(text, font_path, box, max_size, min_size); NoFallback
\* stands for the RuntimeError raised when the loop body never ran
fit_text_to_box(t, box_w, box_h, max_size, min_size) ==
    fit_from(t, box_w, box_h, max_size, min_size, NoFallback)

\* no layout call is in progress
NoLayout ==
    [ pc |-> "idle", text |-> <<>>, box_w |-> 0, box_h |-> 0, max_size |-> 0,
      min_size |-> 0, result |-> NoFallback ]

NoId == 0            \* a slide of the script source that carries no `id`
NoFile == [absent |-> TRUE]   \* a path at which no file exists

\* script texts: "a", "a。b", and the empty script
TextA == << "a" >>
TextAB == << "a", "maru", "b" >>

\* one entry of the script source's `slides` list
S(id, script) == [id |-> id, script |-> script, note_bottom |-> << "n" >>]

\* The script sources of the model: ids in and out of slide order, ids left
\* out, ids given twice, one and two sentences per slide, an empty script.
ScriptSources ==
    { << S(1, TextAB), S(2, TextA) >>,
      << S(2, TextA), S(1, TextAB) >>,
      << S(NoId, TextA), S(NoId, TextAB) >>,
      << S(NoId, TextAB), S(NoId, TextA) >>,
      << S(2, TextA), S(NoId, TextA) >>,
      << S(1, TextA), S(1, TextAB) >>,
      << S(1, TextA), S(NoId, TextA) >>,
      << S(1, <<>>) >>,
      << S(NoId, TextAB) >> }

VARIABLES
    yaml,           \* data["slides"] of the script source
    slidePngs,      \* slide ids n for which slides/slide_<n>.png exists
    audioFiles,     \* audio paths that exist on disk
    frames,         \* chunk names whose frame PNG exists
    clips,          \* chunk names whose clip mp4 exists
    manifestFile,   \* parsed JSON of the manifest file, or NoFile
    concatFile,     \* [lines |-> ...] of the concat list file, or NoFile
    outputs,        \* which of "narration", "final" exist
    manifestCache,  \* MovieMakerApp._manifest_cache
    pc,             \* where the running stage thread is; "idle" when none runs
    segments,       \* the stage's local `segments`
    workers,        \* the audio stage's local `workers`, 0 outside a run
    task,           \* state of each future of the pool, by position in segments
    outOfOrder,     \* some future finished before one submitted earlier
    consumed,       \* futures the as_completed loop has taken
    completed,      \* the local counter `completed`
    ttsLog,         \* positions of the tasks that called AivisSpeechClient.synthesize
    engineCalls,    \* calls made to the TTS engine in this run, oldest first
    written,        \* this run executed manifest_path.write_text
    asmPos,         \* enumerate index of the assembly loop (1-based, next segment)
    source,         \* where the assembly run took its segments: "cache" or "disk"
    encoderLog,     \* run_ffmpeg calls of the assembly run, oldest first
    frameLog,       \* chunk names composed by the assembly run, oldest first
    last,           \* outcome of the stage run that ended last
    text,           \* argument of a stand-alone split_script call
    parts,          \* its result
    splitPc,        \* "input" before the call, "done" after
    layout,         \* arguments and result of a stand-alone text layout call
    threads         \* the background threads _run_async started, by slot

vars == << yaml, slidePngs, audioFiles, frames, clips,
           manifestFile, concatFile, outputs, manifestCache, pc, segments, workers, task,
           outOfOrder, consumed, completed, ttsLog, engineCalls, written, asmPos,
           source, encoderLog, frameLog, last, text, parts, splitPc, layout, threads >>

settings == << yaml >>
disk == << slidePngs, audioFiles, frames, clips, manifestFile, concatFile, outputs >>
audioRun == << segments, workers, task, outOfOrder, consumed, completed, ttsLog,
              engineCalls, written >>
asmRun == << asmPos, source, encoderLog, frameLog >>
splitVars == << text, parts, splitPc, layout, threads >>

\* ---------------------------------------------------------------- Segment
\* Segment.chunk_name
chunk_name(seg) == << seg.slide_id, seg.chunk_index >>

\* audio_dir / f"chunk_{slide_id:03d}_{idx:02d}.wav"
AudioPath(slide_id, idx) == << "chunk", slide_id, idx >>

\* slides_dir / f"slide_{slide_id:03d}.png"
SlidePath(slide_id) == << "slide", slide_id >>

\* str(slide_images.get(slide_id, "")): the empty string when no PNG matches
slide_images_get(images, slide_id) ==
    IF slide_id \in images THEN SlidePath(slide_id) ELSE <<>>

\* int(slide.get("id", sequence))
slide_id_of(slide, sequence) == IF slide.id = NoId THEN sequence ELSE slide.id

\* the inner loop without `sequence += 1`
slide_segments_one_sequence(slide, sequence, images) ==
    LET slide_id == slide_id_of(slide, sequence)
        sentences == split_script(slide.script)
    IN  [ idx \in 1..Len(sentences) |->
            [ slide_id    |-> slide_id,
              chunk_index |-> idx,
              sequence    |-> sequence,
              script_text |-> strip(sentences[idx]),
              note_bottom |-> slide.note_bottom,
              slide_image |-> slide_images_get(images, slide_id),
              audio_path  |-> AudioPath(slide_id, idx) ] ]

\* the Segments of one slide, the inner for loop of _generate_audio
slide_segments(slide, sequence, images) ==
    LET slide_id == slide_id_of(slide, sequence)
        sentences == split_script(slide.script)
    IN  [ idx \in 1..Len(sentences) |->
            [ slide_id    |-> slide_id,
              chunk_index |-> idx,
              sequence    |-> sequence + idx - 1,
              script_text |-> strip(sentences[idx]),
              note_bottom |-> slide.note_bottom,
              slide_image |-> slide_images_get(images, slide_id),
              audio_path  |-> AudioPath(slide_id, idx) ] ]

\* the outer for loop of _generate_audio: the segment list, or the error of
\* the first segment that has no slide image
RECURSIVE build_segments(_, _, _)
build_segments(slides, sequence, images) ==
    IF slides = <<>> THEN [err |-> <<>>, segments |-> <<>>]
    ELSE LET segs == slide_segments(Head(slides), sequence, images)
         IN  IF \E i \in DOMAIN segs : segs[i].slide_image = <<>>
             THEN [err |-> <<"slide_png_not_found", slide_id_of(Head(slides), sequence)>>,
                   segments |-> <<>>]
             ELSE LET rest == build_segments(Tail(slides), sequence + Len(segs), images)
                  IN  IF rest.err # <<>> THEN rest
                      ELSE [err |-> <<>>, segments |-> segs \o rest.segments]

\* ---------------------------------------------------------------- manifest
\* segment.__dict__ as written by json.dumps
segment_dict(seg) == seg

\* payload["segments"] of _generate_audio
manifest_payload(segs) == [ segments |-> [ i \in DOMAIN segs |-> segment_dict(segs[i]) ] ]

\* the default taken as the 0-based index: seg.get("sequence", idx)
sequence_of_zero_based(d, idx) == IF "sequence" \in DOMAIN d THEN d.sequence ELSE idx

\* seg.get("sequence", idx + 1), idx being the 0-based enumerate index
sequence_of(d, idx) == IF "sequence" \in DOMAIN d THEN d.sequence ELSE idx + 1

\* the list comprehension of _load_manifest_from_disk
load_segments(data) ==
    [ i \in DOMAIN data.segments |->
        LET d == data.segments[i]
        IN  [ slide_id    |-> d.slide_id,
              chunk_index |-> d.chunk_index,
              sequence    |-> sequence_of(d, i - 1),
              script_text |-> d.script_text,
              note_bottom |-> IF "note_bottom" \in DOMAIN d THEN d.note_bottom ELSE <<>>,
              slide_image |-> d.slide_image,
              audio_path  |-> d.audio_path ] ]

\* a manifest written before the `sequence` field existed
legacy_dict(seg) ==
    [ slide_id |-> seg.slide_id, chunk_index |-> seg.chunk_index,
      script_text |-> seg.script_text, note_bottom |-> seg.note_bottom,
      slide_image |-> seg.slide_image, audio_path |-> seg.audio_path ]

legacy_payload(segs) == [ segments |-> [ i \in DOMAIN segs |-> legacy_dict(segs[i]) ] ]

\* ---------------------------------------------------------------- slides
\* len(doc): the deck has one page per slide of the script
deck_pages(slides) == Len(slides)

\* the slide id _generate_slides gives page `index` (1-based)
page_slide_id(slides, index) ==
    IF index - 1 < Len(slides) THEN
        (IF slides[index].id = NoId THEN index ELSE slides[index].id)
    ELSE index

\* the ids whose PNG a run of _generate_slides writes
generated_slide_ids(slides, pages) == { page_slide_id(slides, index) : index \in 1..pages }

\* ---------------------------------------------------------------- Init
Ok(op) == [op |-> op, ok |-> TRUE, err |-> <<>>]
Failed(op, err) == [op |-> op, ok |-> FALSE, err |-> err]

NoRun ==
    /\ pc = "idle"
    /\ segments = <<>>
    /\ workers = 0
    /\ task = <<>>
    /\ outOfOrder = FALSE
    /\ consumed = {}
    /\ completed = 0
    /\ ttsLog = {}
    /\ engineCalls = <<>>
    /\ written = FALSE
    /\ asmPos = 0
    /\ source = "none"
    /\ encoderLog = <<>>
    /\ frameLog = <<>>
    /\ last = Ok("start")

\* What an earlier session of the program on the same deck and script left on
\* disk, when its slide and audio stages both succeeded.
PreviousRun == build_segments(yaml, 1, generated_slide_ids(yaml, deck_pages(yaml)))

FreshDisk ==
    /\ slidePngs = {}
    /\ audioFiles = {}
    /\ manifestFile = NoFile

LeftoverDisk ==
    /\ PreviousRun.err = <<>>
    /\ slidePngs = generated_slide_ids(yaml, deck_pages(yaml))
    /\ audioFiles = { PreviousRun.segments[i].audio_path : i \in DOMAIN PreviousRun.segments }
    /\ manifestFile \in { manifest_payload(PreviousRun.segments),
                          legacy_payload(PreviousRun.segments),
                          [segments |-> <<>>] }

Init ==
    /\ yaml \in ScriptSources
    /\ FreshDisk \/ LeftoverDisk
    /\ frames = {}
    /\ clips = {}
    /\ concatFile = NoFile
    /\ outputs = {}
    /\ manifestCache = <<>>
    /\ NoRun
    /\ text = <<>>
    /\ parts = <<>>
    /\ splitPc = "idle"
    /\ layout = NoLayout
    /\ threads = NoThreads

\* The locals and the call logs of a run that ended are dropped when the next
\* operation starts.
ClearAudioRun ==
    /\ segments' = <<>>
    /\ workers' = 0
    /\ task' = <<>>
    /\ outOfOrder' = FALSE
    /\ consumed' = {}
    /\ completed' = 0
    /\ ttsLog' = {}
    /\ engineCalls' = <<>>
    /\ written' = FALSE

ClearAsmRun ==
    /\ asmPos' = 0
    /\ source' = "none"
    /\ encoderLog' = <<>>
    /\ frameLog' = <<>>

\* ---------------------------------------------------------------- stage 1
\* _generate_slides, run to completion on its thread
GenerateSlides ==
    /\ pc = "idle"
    /\ slidePngs' = slidePngs \cup generated_slide_ids(yaml, deck_pages(yaml))
    /\ last' = Ok("slides")
    /\ ClearAudioRun
    /\ ClearAsmRun
    /\ UNCHANGED << settings, audioFiles, frames, clips, manifestFile, concatFile,
                    outputs, manifestCache, pc, splitVars >>

\* ---------------------------------------------------------------- refresh
\* _refresh_outputs after the user confirmed: the four directories and the
\* four files are removed; _manifest_cache is not touched
RefreshOutputs ==
    /\ pc = "idle"
    /\ slidePngs' = {}
    /\ audioFiles' = {}
    /\ frames' = {}
    /\ clips' = {}
    /\ manifestFile' = NoFile
    /\ concatFile' = NoFile
    /\ outputs' = {}
    /\ last' = Ok("refresh")
    /\ ClearAudioRun
    /\ ClearAsmRun
    /\ UNCHANGED << settings, manifestCache, pc, splitVars >>

\* ---------------------------------------------------------------- stage 2
\* _generate_audio up to the creation of the pool: precondition checks, the
\* segment list, the optional pre-warm call (which the engine may refuse)
AudioAbortEarly(err) ==
    /\ last' = Failed("audio", err)
    /\ pc' = "idle"
    /\ segments' = <<>>
    /\ workers' = 0
    /\ task' = <<>>

\* max(1, int(worker_var.get()))
pool_size(w) == IF w < 1 THEN 1 ELSE w

\* the pool is created and every segment submitted
PoolCreated(segs, worker_var) ==
    /\ pc' = "audio_pool"
    /\ segments' = segs
    /\ workers' = pool_size(worker_var)
    /\ task' = [i \in DOMAIN segs |-> "queued"]
    /\ last' = last

\* prewarm_var and worker_var are read when the stage runs
AudioStart ==
    /\ pc = "idle"
    /\ outOfOrder' = FALSE
    /\ consumed' = {}
    /\ completed' = 0
    /\ ttsLog' = {}
    /\ written' = FALSE
    /\ \E prewarm_var \in BOOLEAN, worker_var \in 0..MaxWorkers :
        LET built == build_segments(yaml, 1, slidePngs)
        IN  IF slidePngs = {} THEN
                AudioAbortEarly(<<"no_slide_png">>) /\ engineCalls' = <<>>
            ELSE IF built.err # <<>> THEN
                AudioAbortEarly(built.err) /\ engineCalls' = <<>>
            ELSE IF prewarm_var THEN
                /\ engineCalls' = << <<"initialize_speaker">> >>
                /\ \/ AudioAbortEarly(<<"engine_http_error", "initialize_speaker">>)
                   \/ PoolCreated(built.segments, worker_var)
            ELSE /\ engineCalls' = <<>>
                 /\ PoolCreated(built.segments, worker_var)
    /\ ClearAsmRun
    /\ UNCHANGED << settings, disk, manifestCache, splitVars >>

InPool == pc \in {"audio_pool", "audio_raised"}

Running == { i \in DOMAIN task : task[i] = "calling" }
Queued == { i \in DOMAIN task : task[i] = "queued" }

\* future i finishes while a future submitted before it has not
overtakes(i, t) == \E j \in DOMAIN t : j < i /\ t[j] \in {"queued", "calling"}

\* the is_file() test taken as always false, and as always true
audio_never_exists(seg, files) == FALSE
audio_always_exists(seg, files) == TRUE

\* Path(segment.audio_path).is_file()
audio_exists(seg, files) == seg.audio_path \in files

\* A free worker takes the oldest queued task and runs `synthesize` up to the
\* HTTP request: it returns at once when the audio file exists.
TaskStart ==
    /\ InPool
    /\ Queued # {}
    /\ Cardinality(Running) < workers
    /\ LET i == CHOOSE k \in Queued : \A j \in Queued : k <= j
       IN  IF audio_exists(segments[i], audioFiles) THEN
                /\ task' = [task EXCEPT ![i] = "done"]
                /\ outOfOrder' = (outOfOrder \/ overtakes(i, task))
                /\ UNCHANGED << ttsLog, engineCalls >>
           ELSE /\ task' = [task EXCEPT ![i] = "calling"]
                /\ ttsLog' = ttsLog \cup {i}
                /\ engineCalls' = Append(engineCalls, <<"synthesize", segments[i].audio_path>>)
                /\ UNCHANGED outOfOrder
    /\ UNCHANGED << settings, disk, manifestCache, pc, segments, workers, consumed,
                    completed, written, asmRun, last, splitVars >>

\* AivisSpeechClient.synthesize got its two responses: dest.write_bytes
TaskSucceed(i) ==
    /\ InPool
    /\ task[i] = "calling"
    /\ task' = [task EXCEPT ![i] = "done"]
    /\ outOfOrder' = (outOfOrder \/ overtakes(i, task))
    /\ audioFiles' = audioFiles \cup {segments[i].audio_path}
    /\ UNCHANGED << settings, slidePngs, frames, clips, manifestFile, concatFile, outputs,
                    manifestCache, pc, segments, workers, consumed, completed, ttsLog,
                    engineCalls, written, asmRun, last, splitVars >>

\* raise_for_status raised in AivisSpeechClient.synthesize: nothing is written
TaskFail(i) ==
    /\ InPool
    /\ task[i] = "calling"
    /\ task' = [task EXCEPT ![i] = "failed"]
    /\ outOfOrder' = (outOfOrder \/ overtakes(i, task))
    /\ UNCHANGED << settings, disk, manifestCache, pc, segments, workers, consumed,
                    completed, ttsLog, engineCalls, written, asmRun, last, splitVars >>

\* the loop without its future.result() call
result_never_raises(status) == FALSE

\* future.result() re-raises the exception of a failed task
result_raises(status) == status = "failed"

\* One turn of the as_completed loop on a finished future.
Consume(i) ==
    /\ pc = "audio_pool"
    /\ task[i] \in {"done", "failed"}
    /\ i \notin consumed
    /\ consumed' = consumed \cup {i}
    /\ IF result_raises(task[i])
       THEN /\ pc' = "audio_raised"
            /\ UNCHANGED completed
       ELSE /\ completed' = completed + 1
            /\ UNCHANGED pc
    /\ UNCHANGED << settings, disk, manifestCache, segments, workers, task, outOfOrder,
                    ttsLog, engineCalls, written, asmRun, last, splitVars >>

\* the two requests of AivisSpeechClient.synthesize; raise_for_status follows each
EngineRequests == {"audio_query", "synthesis"}

\* what the HTTPError of raise_for_status says: the status and the URL of
\* the request with its query string, which holds the text for audio_query
\* and only speaker settings for synthesis
http_error(request, script_text) ==
    IF request = "audio_query"
    THEN << "engine_http_error", request, script_text >>
    ELSE << "engine_http_error", request >>

\* shutdown(wait=False): the executor is left without joining its workers
pool_joined_no_wait(t) == TRUE

\* shutdown(wait=True) has returned: no submitted task is queued or running
pool_joined(t) == \A i \in DOMAIN t : t[i] \in {"done", "failed"}

\* The exception leaves the `with` block: ThreadPoolExecutor.__exit__ is
\* shutdown(wait=True), which returns once every submitted task has ended.
AudioRaise ==
    /\ pc = "audio_raised"
    /\ pool_joined(task)
    /\ pc' = "idle"
    /\ LET j == CHOOSE i \in consumed : task[i] = "failed"
       IN  \E request \in EngineRequests :
               last' = Failed("audio", http_error(request, segments[j].script_text))
    /\ UNCHANGED << settings, disk, manifestCache, audioRun, asmRun, splitVars >>

\* The loop ended: the manifest is written and cached.
AudioFinish ==
    /\ pc = "audio_pool"
    /\ consumed = DOMAIN task
    /\ manifestFile' = manifest_payload(segments)
    /\ manifestCache' = segments
    /\ pc' = "idle"
    /\ last' = Ok("audio")
    /\ written' = TRUE
    /\ UNCHANGED << settings, slidePngs, audioFiles, frames, clips, concatFile, outputs,
                    segments, workers, task, outOfOrder, consumed, completed, ttsLog,
                    engineCalls, asmRun, splitVars >>

\* ---------------------------------------------------------------- stage 3
\* chunk names in the order a directory listing gives them
NameBefore(a, b) == a[1] < b[1] \/ (a[1] = b[1] /\ a[2] < b[2])

\* the concat list written from the sorted clip file names
concat_lines_by_name(segs) ==
    LET names == SortSeq([ i \in DOMAIN segs |-> chunk_name(segs[i]) ], NameBefore)
    IN  [ i \in DOMAIN names |-> << "clip", names[i] >> ]

\* the lines of the concat list, one per segment in list order
concat_lines(segs) == [ i \in DOMAIN segs |-> << "clip", chunk_name(segs[i]) >> ]

AsmAbort(err) ==
    /\ pc' = "idle"
    /\ last' = Failed("assemble", err)

\* the stage without its emptiness check
no_segments_unchecked(segs) == FALSE

\* `if not segments: raise RuntimeError(...)`
no_segments(segs) == segs = <<>>

\* _assemble_video up to its loop:
\* segments = self._manifest_cache or self._load_manifest_from_disk()
AssembleStart ==
    /\ pc = "idle"
    /\ asmPos' = 1
    /\ encoderLog' = <<>>
    /\ frameLog' = <<>>
    /\ task' = <<>>
    /\ IF manifestCache # <<>> THEN
            /\ source' = "cache"
            /\ segments' = manifestCache
            /\ pc' = "asm_loop"
            /\ UNCHANGED << manifestCache, last >>
       ELSE IF manifestFile = NoFile THEN
            /\ source' = "disk"
            /\ AsmAbort(<<"manifest_not_found">>)
            /\ segments' = <<>>
            /\ UNCHANGED manifestCache
       ELSE /\ source' = "disk"
            /\ manifestCache' = load_segments(manifestFile)
            /\ segments' = load_segments(manifestFile)
            /\ IF no_segments(load_segments(manifestFile))
               THEN AsmAbort(<<"manifest_not_loaded">>)
               ELSE pc' = "asm_loop" /\ UNCHANGED last
    /\ workers' = 0
    /\ consumed' = {}
    /\ completed' = 0
    /\ ttsLog' = {}
    /\ engineCalls' = <<>>
    /\ written' = FALSE
    /\ UNCHANGED << settings, disk, outOfOrder, splitVars >>

\* a failed encoder run taken to empty its output directory
encoder_leaves_nothing(files, name) == { files, {} }

\* The whole output files a failed encoder run may leave: the encoder is told
\* to overwrite its output (-y), so it exits either before it opened the
\* output, which is then as it was, or after, and an output that existed is
\* then no longer a whole file.
encoder_leaves(files, name) == { files, files \ {name} }

\* Image.open(slide_path) in compose_frame needs the slide PNG
slide_image_exists(seg, pngs) == \E n \in pngs : seg.slide_image = SlidePath(n)

\* One turn of the for loop: compose the frame, check the audio file, encode
\* the clip (the encoder may exit non-zero).
AssembleSegment ==
    /\ pc = "asm_loop"
    /\ asmPos <= Len(segments)
    /\ LET segment == segments[asmPos]
           chunk == chunk_name(segment)
       IN  IF ~slide_image_exists(segment, slidePngs) THEN
                /\ AsmAbort(<<"slide_image_unreadable", segment.slide_image>>)
                /\ UNCHANGED << frames, clips, frameLog, encoderLog, asmPos >>
           ELSE /\ frames' = frames \cup {chunk}
                /\ frameLog' = Append(frameLog, chunk)
                /\ IF ~audio_exists(segment, audioFiles) THEN
                        /\ AsmAbort(<<"audio_not_found", segment.audio_path>>)
                        /\ UNCHANGED << clips, encoderLog, asmPos >>
                   ELSE /\ encoderLog' = Append(encoderLog, <<"clip", chunk>>)
                        /\ \/ /\ AsmAbort(<<"ffmpeg_failed", "clip">>)
                              /\ clips' \in encoder_leaves(clips, chunk)
                              /\ UNCHANGED asmPos
                           \/ /\ clips' = clips \cup {chunk}
                              /\ asmPos' = asmPos + 1
                              /\ UNCHANGED << pc, last >>
    /\ UNCHANGED << settings, slidePngs, audioFiles, manifestFile, concatFile, outputs,
                    manifestCache, audioRun, source, splitVars >>

\* The ordering step and the concatenation step.
AssembleConcat ==
    /\ pc = "asm_loop"
    /\ asmPos > Len(segments)
    /\ concatFile' = [lines |-> concat_lines(segments)]
    /\ encoderLog' = Append(encoderLog, <<"concat">>)
    /\ \/ /\ AsmAbort(<<"ffmpeg_failed", "concat">>)
          /\ outputs' \in encoder_leaves(outputs, "narration")
       \/ /\ outputs' = outputs \cup {"narration"}
          /\ pc' = "asm_mix"
          /\ UNCHANGED last
    /\ UNCHANGED << settings, slidePngs, audioFiles, frames, clips, manifestFile,
                    manifestCache, audioRun, asmPos, source, frameLog, splitVars >>

\* The mixing step: the BGM file may be missing, the encoder may fail.
AssembleMix ==
    /\ pc = "asm_mix"
    /\ \/ /\ AsmAbort(<<"bgm_not_found">>)
          /\ UNCHANGED << outputs, encoderLog >>
       \/ /\ encoderLog' = Append(encoderLog, <<"mix">>)
          /\ \/ /\ AsmAbort(<<"ffmpeg_failed", "mix">>)
                /\ outputs' \in encoder_leaves(outputs, "final")
             \/ /\ outputs' = outputs \cup {"final"}
                /\ pc' = "idle"
                /\ last' = Ok("assemble")
    /\ UNCHANGED << settings, slidePngs, audioFiles, frames, clips, manifestFile,
                    concatFile, manifestCache, audioRun, asmPos, source, frameLog,
                    splitVars >>

\* ---------------------------------------------------------------- session
Next ==
    \/ GenerateSlides
    \/ RefreshOutputs
    \/ AudioStart
    \/ TaskStart
    \/ \E i \in DOMAIN task : TaskSucceed(i)
    \/ \E i \in DOMAIN task : TaskFail(i)
    \/ \E i \in DOMAIN task : Consume(i)
    \/ AudioRaise
    \/ AudioFinish
    \/ AssembleStart
    \/ AssembleSegment
    \/ AssembleConcat
    \/ AssembleMix

Spec == Init /\ [][Next]_vars

TypeOK == pc \in {"idle", "audio_pool", "audio_raised", "asm_loop", "asm_mix"}

\* ---------------------------------------------------------------- split_script alone
\* every text of at most MaxLen characters
Texts == UNION { [1..n -> Alphabet] : n \in 0..MaxLen }

InitSplit ==
    /\ yaml = << S(1, TextA) >>
    /\ FreshDisk
    /\ frames = {}
    /\ clips = {}
    /\ concatFile = NoFile
    /\ outputs = {}
    /\ manifestCache = <<>>
    /\ NoRun
    /\ text \in Texts
    /\ parts = <<>>
    /\ splitPc = "input"
    /\ layout = NoLayout
    /\ threads = NoThreads

\* parts = split_script(text)
SplitScript ==
    /\ splitPc = "input"
    /\ parts' = split_script(text)
    /\ splitPc' = "done"
    /\ UNCHANGED << settings, disk, manifestCache, pc, audioRun, asmRun, last, text, layout, threads >>

NextSplit == SplitScript

SpecSplit == InitSplit /\ [][NextSplit]_vars

\* ---------------------------------------------------------------- claims
\* text that str.strip() reduces to nothing once "\r" is removed
Blank(t) == \A i \in DOMAIN t : t[i] \in Whitespace \cup {"cr"}

\* C9: split_script returns at least one chunk for every text, and exactly
\* one chunk for an empty or whitespace-only text.
C9_SplitNeverEmpty ==
    splitPc = "done" =>
        /\ Len(parts) >= 1
        /\ (Blank(text) => Len(parts) = 1)

\* C9 witness: a whitespace-only text was split into its single empty chunk.
C9_Witness ==
    /\ splitPc = "done"
    /\ text # <<>>
    /\ Blank(text)
    /\ parts = << <<>> >>

\* The trimmed non-blank fragments between delimiters, in input order.
Fragments(t) ==
    LET fr == split_on(remove_cr(t), <<>>)
    IN  SelectSeq([i \in DOMAIN fr |-> strip(fr[i])], LAMBDA f : f # <<>>)

\* the marks C10 counts as terminal: the delimiter, exclamation marks,
\* question marks and the full stop, in either width
ClaimedTerminals == {"maru", "zbang", "bang", "zqm", "qm", "dot"}

\* C10: every non-blank fragment is emitted in input order, unchanged when it
\* ends in a terminal mark (delimiter, exclamation mark, question mark, full
\* stop) and with exactly one delimiter appended otherwise.
C10_TerminalKeptUnchanged ==
    (splitPc = "done" /\ Fragments(text) # <<>>) =>
        /\ Len(parts) = Len(Fragments(text))
        /\ \A i \in DOMAIN parts :
              LET f == Fragments(text)[i]
              IN  parts[i] = IF f[Len(f)] \in ClaimedTerminals THEN f ELSE f \o <<Delim>>

\* ---- session claims
AsmRunning == asmPos > 0
ReachedOrdering == \E k \in DOMAIN encoderLog : encoderLog[k] = <<"concat">>

\* 1 + the number of segments with a smaller sequence
Rank(segs, j) == 1 + Cardinality({ k \in DOMAIN segs : segs[k].sequence < segs[j].sequence })

\* C1: when an assembly run has reached the ordering step, line i of the
\* concat list names the clip of the segment with the i-th smallest sequence,
\* whether the segments came from the cache or from the manifest on disk.
C1_ConcatInSequenceOrder ==
    (AsmRunning /\ ReachedOrdering) =>
        /\ concatFile # NoFile
        /\ Len(concatFile.lines) = Len(segments)
        /\ \A j \in DOMAIN segments :
              /\ Rank(segments, j) \in DOMAIN concatFile.lines
              /\ concatFile.lines[Rank(segments, j)] = << "clip", chunk_name(segments[j]) >>

\* C1 witness: the ordering step ran on cached segments whose synthesis
\* tasks finished out of submission order and whose chunk names are not in
\* sequence order.
C1_Witness ==
    /\ AsmRunning
    /\ ReachedOrdering
    /\ source = "cache"
    /\ outOfOrder
    /\ Len(segments) = 3
    /\ segments[1].slide_id > segments[2].slide_id

\* C2: a run of the audio stage writes the manifest only when every task of
\* the run has completed successfully and been collected, and when the stage
\* has returned normally every segment's audio file exists.
C2_ManifestAfterAllTasks ==
    /\ written =>
          /\ \A i \in DOMAIN task : task[i] = "done" /\ i \in consumed
          /\ manifestFile # NoFile
          /\ manifestCache = segments
    /\ (pc = "idle" /\ last = Ok("audio")) =>
          /\ written
          /\ \A i \in DOMAIN segments : segments[i].audio_path \in audioFiles
    /\ (\E i \in DOMAIN task : task[i] = "failed") => ~written

\* C2 witness: the stage returned normally after synthesizing three files.
C2_Witness ==
    /\ pc = "idle"
    /\ last = Ok("audio")
    /\ written
    /\ Cardinality(ttsLog) = 3

\* the segment list the audio stage builds from what is on disk now
Built == build_segments(yaml, 1, slidePngs)
AllAudioPresent ==
    /\ slidePngs # {}
    /\ Built.err = <<>>
    /\ \A i \in DOMAIN Built.segments : Built.segments[i].audio_path \in audioFiles

\* a run of the audio stage that ended and found every audio file in place
RerunEnded == pc = "idle" /\ last.op = "audio" /\ AllAudioPresent /\ ttsLog = {}

\* C3 as stated: a re-run with every audio file present makes no call to the
\* TTS engine and writes the manifest.
C3_RerunNoEngineCall ==
    RerunEnded => (engineCalls = <<>> /\ written)

\* C3 amended: a task whose audio file exists when it starts makes no engine
\* call and succeeds; a re-run with every audio file present makes no
\* synthesis call, its only engine call is the optional pre-warm, and it writes
\* a manifest listing every segment unless that pre-warm call fails.
C3_RerunNoSynthesis ==
    /\ [][ \A i \in DOMAIN task :
             (/\ i \in DOMAIN task'
              /\ task[i] = "queued"
              /\ task'[i] # "queued"
              /\ segments[i].audio_path \in audioFiles)
             => (task'[i] = "done" /\ ttsLog' = ttsLog /\ engineCalls' = engineCalls) ]_vars
    /\ [](RerunEnded =>
            /\ \A k \in DOMAIN engineCalls : engineCalls[k] = <<"initialize_speaker">>
            /\ Len(engineCalls) <= 1
            /\ IF last.ok
               THEN /\ written
                    /\ manifestFile = manifest_payload(Built.segments)
               ELSE /\ last.err = <<"engine_http_error", "initialize_speaker">>
                    /\ ~written)

\* C3 witness: a re-run with pre-warm found every file, called only
\* initialize_speaker and wrote the manifest of three segments.
C3_Witness ==
    /\ RerunEnded
    /\ last.ok
    /\ engineCalls = << <<"initialize_speaker">> >>
    /\ written
    /\ Len(segments) = 3

\* C4: no two segments of the built list share (slide_id, chunk_index), so
\* within one run of the pool no audio file is the target of two synthesis
\* calls.
C4_SynthesizedAtMostOnce ==
    InPool =>
        \A i, j \in ttsLog : i # j => segments[i].audio_path # segments[j].audio_path

\* the number of chunks of the first k slides of the script source
RECURSIVE ChunksBefore(_, _)
ChunksBefore(slides, k) ==
    IF k = 0 THEN 0
    ELSE ChunksBefore(slides, k - 1) + Len(split_script(slides[k].script))

\* the segments the audio stage built are in `segments` while its pool runs
\* and until the next operation starts
AudioBuilt == InPool \/ (pc = "idle" /\ last = Ok("audio"))

\* C5: the built list has sequence 1..n in list order; the segments of slide
\* k follow those of slides 1..k-1 and carry chunk_index 1, 2, ... in order;
\* the manifest holds the same segments in the same order.
C5_SequenceIsListOrder ==
    AudioBuilt =>
        /\ Len(segments) = ChunksBefore(yaml, Len(yaml))
        /\ \A i \in DOMAIN segments : segments[i].sequence = i
        /\ \A k \in DOMAIN yaml :
              \A c \in 1..Len(split_script(yaml[k].script)) :
                  LET seg == segments[ChunksBefore(yaml, k - 1) + c]
                  IN  /\ seg.chunk_index = c
                      /\ seg.script_text = strip(split_script(yaml[k].script)[c])
                      /\ yaml[k].id # NoId => seg.slide_id = yaml[k].id
        /\ written =>
              /\ Len(manifestFile.segments) = Len(segments)
              /\ \A i \in DOMAIN segments :
                    /\ manifestFile.segments[i].sequence = i
                    /\ manifestFile.segments[i].slide_id = segments[i].slide_id
                    /\ manifestFile.segments[i].chunk_index = segments[i].chunk_index

\* C5 witness: a manifest of three segments, two for the first slide.
C5_Witness ==
    /\ pc = "idle"
    /\ last = Ok("audio")
    /\ written
    /\ Len(segments) = 3
    /\ segments[2].chunk_index = 2
    /\ segments[3].chunk_index = 1

\* the stored entry d at position i (1-based) and the loaded segment agree
SameFields(d, seg, i) ==
    /\ seg.slide_id = d.slide_id
    /\ seg.chunk_index = d.chunk_index
    /\ seg.script_text = d.script_text
    /\ seg.note_bottom = d.note_bottom
    /\ seg.slide_image = d.slide_image
    /\ seg.audio_path = d.audio_path
    /\ seg.sequence = IF "sequence" \in DOMAIN d THEN d.sequence ELSE i

\* C6: what _load_manifest_from_disk returns has the length and order of the
\* stored list and the stored values of all seven fields, a missing sequence
\* being the 1-based position; loading the manifest an audio stage wrote
\* gives back the segment list of that stage.
C6_ManifestRoundTrip ==
    /\ (AsmRunning /\ source = "disk" /\ manifestFile # NoFile) =>
          /\ Len(segments) = Len(manifestFile.segments)
          /\ manifestCache = segments
          /\ \A i \in DOMAIN segments : SameFields(manifestFile.segments[i], segments[i], i)
          /\ manifestFile = manifest_payload(PreviousRun.segments) =>
                segments = PreviousRun.segments
    /\ written =>
          \A i \in DOMAIN segments :
              /\ DOMAIN manifestFile.segments[i] =
                    {"slide_id", "chunk_index", "sequence", "script_text", "note_bottom",
                     "slide_image", "audio_path"}
              /\ SameFields(manifestFile.segments[i], segments[i], i)

\* C6 witness: the assembly stage loaded the three-segment manifest an
\* earlier audio stage wrote and got that stage's list back.
C6_Witness ==
    /\ AsmRunning
    /\ source = "disk"
    /\ manifestFile = manifest_payload(PreviousRun.segments)
    /\ Len(segments) = 3
    /\ segments = PreviousRun.segments
    /\ segments[1].note_bottom # <<>>

\* the manifest file is missing or holds zero segments
ManifestUnusable == manifestFile = NoFile \/ manifestFile.segments = <<>>

ManifestErrors == { <<"manifest_not_found">>, <<"manifest_not_loaded">> }

\* C7 as stated: an assembly run started while the manifest file is missing
\* or empty composes no frame, calls no encoder and ends in the manifest
\* precondition error.
C7_UnusableManifestIsFatal ==
    (AsmRunning /\ ManifestUnusable) =>
        /\ frameLog = <<>>
        /\ encoderLog = <<>>
        /\ pc # "asm_mix"
        /\ (pc = "idle" => ~last.ok)

\* C7 amended: the same, for runs started while _manifest_cache is empty; a
\* run started while the cache holds segments works on the cached list and
\* does not read the manifest file.
C7_UnusableManifestIsFatalWithoutCache ==
    /\ (AsmRunning /\ source = "disk" /\ ManifestUnusable) =>
          /\ frameLog = <<>>
          /\ encoderLog = <<>>
          /\ pc = "idle"
          /\ ~last.ok
          /\ last.err \in ManifestErrors
          /\ manifestCache = <<>>
    /\ (AsmRunning /\ source = "cache") =>
          /\ segments = manifestCache
          /\ segments # <<>>
          /\ (pc = "idle" => last.err \notin ManifestErrors)

\* C7 witness: an assembly run found a manifest file with zero segments and
\* stopped with the precondition error.
C7_Witness ==
    /\ AsmRunning
    /\ source = "disk"
    /\ manifestFile = [segments |-> <<>>]
    /\ pc = "idle"
    /\ last = Failed("assemble", <<"manifest_not_loaded">>)

\* positions of the segments of the assembly run whose audio file is missing
MissingAudio == { i \in DOMAIN segments : segments[i].audio_path \notin audioFiles }
FirstMissing == CHOOSE i \in MissingAudio : \A j \in MissingAudio : i <= j

ClipCalls == SelectSeq(encoderLog, LAMBDA c : c[1] = "clip")

\* segments are taken one at a time in list order, and a clip is encoded
\* only for a segment whose audio file exists
InListOrder ==
    /\ Len(frameLog) <= Len(segments)
    /\ \A k \in DOMAIN frameLog : frameLog[k] = chunk_name(segments[k])
    /\ Len(ClipCalls) <= Len(frameLog)
    /\ \A k \in DOMAIN ClipCalls :
          /\ ClipCalls[k] = << "clip", chunk_name(segments[k]) >>
          /\ segments[k].audio_path \in audioFiles

\* the run never gets past the first segment without audio: no concat list,
\* no concatenation call, no mixing call
StopsAtFirstMissing ==
    /\ asmPos <= FirstMissing
    /\ \A k \in DOMAIN encoderLog : encoderLog[k][1] = "clip"
    /\ pc # "asm_mix"

ScriptTexts == UNION { [1..n -> Alphabet] : n \in 0..MaxScriptLen }

InitBuild ==
    /\ yaml \in { << S(1, t) >> : t \in ScriptTexts }
    /\ slidePngs = {1}
    /\ audioFiles = {}
    /\ manifestFile = NoFile
    /\ frames = {}
    /\ clips = {}
    /\ concatFile = NoFile
    /\ outputs = {}
    /\ manifestCache = <<>>
    /\ NoRun
    /\ text = <<>>
    /\ parts = <<>>
    /\ splitPc = "idle"
    /\ layout = NoLayout
    /\ threads = NoThreads

NextBuild == AudioStart

SpecBuild == InitBuild /\ [][NextBuild]_vars

\* the slide (position in the script source) that segment i narrates
SlideOfSegment(i) ==
    CHOOSE k \in DOMAIN yaml : ChunksBefore(yaml, k - 1) < i /\ i <= ChunksBefore(yaml, k)

\* C11 as stated: every segment the audio stage creates has a non-empty
\* script_text that ends with a sentence-ending punctuation mark.
C11_ScriptTextTerminated ==
    InPool =>
        \A i \in DOMAIN segments :
            /\ segments[i].script_text # <<>>
            /\ segments[i].script_text[Len(segments[i].script_text)] \in ClaimedTerminals

\* C11 amended: a segment's script_text is empty only when its slide's
\* script is empty or whitespace-only, and then it is the slide's only
\* segment; every other script_text ends with one of the terminal marks.
C11_ScriptTextTerminatedUnlessBlank ==
    InPool =>
        \A i \in DOMAIN segments :
            LET t == segments[i].script_text
                k == SlideOfSegment(i)
            IN  IF t = <<>>
                THEN /\ Blank(yaml[k].script)
                     /\ Len(split_script(yaml[k].script)) = 1
                ELSE /\ t[Len(t)] \in {"maru", "zbang", "zqm", "bang", "dot"}
                     /\ t[1] \notin {"sp", "cr"}

\* C11 witness: a whitespace-only script gave a segment with empty text.
C11_Witness ==
    /\ InPool
    /\ yaml[1].script # <<>>
    /\ Len(segments) = 1
    /\ segments[1].script_text = <<>>

\* ---------------------------------------------------------------- layout alone
MaxLayoutLen == 4     \* longest text given to the layout functions
MinFontSize == 22     \* smallest font size tried
MaxFontSize == 26     \* largest font size tried

LayoutTexts == UNION { [1..n -> LayoutAlphabet] : n \in 0..MaxLayoutLen }
BoxWidths == {0, 24, 50}
BoxHeights == {0, 30, 60, 130}

InitLayout ==
    /\ yaml = << S(1, TextA) >>
    /\ FreshDisk
    /\ frames = {}
    /\ clips = {}
    /\ concatFile = NoFile
    /\ outputs = {}
    /\ manifestCache = <<>>
    /\ NoRun
    /\ text = <<>>
    /\ parts = <<>>
    /\ splitPc = "idle"
    /\ threads = NoThreads
    /\ \E t \in LayoutTexts, w \in BoxWidths, h \in BoxHeights,
          lo \in MinFontSize..MaxFontSize, hi \in MinFontSize..MaxFontSize :
          /\ lo <= hi
          /\ layout = [ pc |-> "input", text |-> t, box_w |-> w, box_h |-> h,
                        max_size |-> hi, min_size |-> lo, result |-> NoFallback ]

\* lines = wrap_text_lines(text, font, box_width, draw) at the font of size
\* max_size
WrapText ==
    /\ layout.pc = "input"
    /\ layout' = [layout EXCEPT !.pc = "wrapped",
                                !.result = layout_at(layout.text, layout.box_w, layout.max_size)]
    /\ UNCHANGED << settings, disk, manifestCache, pc, audioRun, asmRun, last,
                    text, parts, splitPc, threads >>

\* fit_text_to_box(text, font_path, box, max_size, min_size)
FitText ==
    /\ layout.pc = "input"
    /\ layout' = [layout EXCEPT !.pc = "fitted",
                                !.result = fit_text_to_box(layout.text, layout.box_w,
                                               layout.box_h, layout.max_size, layout.min_size)]
    /\ UNCHANGED << settings, disk, manifestCache, pc, audioRun, asmRun, last,
                    text, parts, splitPc, threads >>

NextLayout == WrapText \/ FitText

SpecLayout == InitLayout /\ [][NextLayout]_vars

\* C12: every line wrap_text_lines returns for a non-empty text measures at
\* most the box width, except a line of one character that alone is wider.
C12_LinesFitBoxWidth ==
    (layout.pc \in {"wrapped", "fitted"} /\ layout.text # <<>>) =>
        \A k \in DOMAIN layout.result.lines :
            LET line == layout.result.lines[k]
            IN  \/ textlength(line, layout.result.size) <= layout.box_w
                \/ Len(line) = 1

\* C12 witness: a text was wrapped into several lines, one of them a single
\* character wider than the box and one of them longer and within the box.
C12_Witness ==
    /\ layout.pc = "wrapped"
    /\ layout.text # <<>>
    /\ \E k \in DOMAIN layout.result.lines :
          /\ Len(layout.result.lines[k]) = 1
          /\ textlength(layout.result.lines[k], layout.result.size) > layout.box_w
    /\ \E k \in DOMAIN layout.result.lines :
          /\ Len(layout.result.lines[k]) >= 2
          /\ textlength(layout.result.lines[k], layout.result.size) <= layout.box_w

\* the sizes max_size, max_size - 2, ... that are not below min_size
SizesTried(max_size, min_size) ==
    { z \in min_size..max_size : (max_size - z) % 2 = 0 }

\* the block of the layout at size z fits the box height
FitsHeight(t, box_w, box_h, z) ==
    LET n == Len(wrap_text_lines(t, z, box_w))
    IN  font_height(z) * n + line_spacing_of(z) * (IF n > 1 THEN n - 1 ELSE 0) <= box_h

\* C13: fit_text_to_box returns the layout of the largest size among
\* max_size, max_size - 2, ... >= min_size whose block fits the box height,
\* and the layout computed at min_size when none fits.
C13_LargestFittingOrMinSize ==
    layout.pc = "fitted" =>
        LET fitting == { z \in SizesTried(layout.max_size, layout.min_size) :
                            FitsHeight(layout.text, layout.box_w, layout.box_h, z) }
        IN  IF fitting # {}
            THEN /\ layout.result.size \in fitting
                 /\ \A z \in fitting : z <= layout.result.size
            ELSE layout.result = layout_at(layout.text, layout.box_w, layout.min_size)

\* ---------------------------------------------------------------- button threads
\* Every button hands its stage function to _run_async, which starts a new
\* daemon thread for it; nothing disables a button or takes a lock while a
\* thread is alive.  The threads share the output directories and
\* _manifest_cache.  A thread's steps are those of its stage function; the
\* tasks of one audio run are taken one after the other here, what
\* interleaves is the threads.
StageFuncs == {"slides", "audio", "video", "all"}

first_stage(func) == IF func = "all" THEN "slides" ELSE func

\* what a thread does after its stage returned: _run_all calls the next
\* stage, any other function returns and the thread ends
after_stage(th) ==
    IF th.func = "all" /\ th.stage = "slides"
        THEN [th EXCEPT !.stage = "audio", !.at = "start", !.segs = <<>>, !.k = 0]
    ELSE IF th.func = "all" /\ th.stage = "audio"
        THEN [th EXCEPT !.stage = "video", !.at = "start", !.segs = <<>>, !.k = 0]
    ELSE NoThread

InitThreads ==
    /\ yaml \in { << S(1, TextAB) >>, << S(1, TextA), S(2, TextA) >> }
    /\ FreshDisk
    /\ frames = {}
    /\ clips = {}
    /\ concatFile = NoFile
    /\ outputs = {}
    /\ manifestCache = <<>>
    /\ NoRun
    /\ text = <<>>
    /\ parts = <<>>
    /\ splitPc = "idle"
    /\ layout = NoLayout
    /\ threads = NoThreads

ThreadFrame ==
    UNCHANGED << settings, pc, audioRun, asmRun, last, text, parts, splitPc, layout >>

\* a button is pressed: _run_async(func)
Click ==
    \E func \in StageFuncs, t \in Slots :
        /\ threads[t] = NoThread
        /\ \A u \in Slots : u < t => threads[u] # NoThread
        /\ threads' = [threads EXCEPT ![t] =
                          [NoThread EXCEPT !.func = func, !.stage = first_stage(func),
                                           !.at = "start"]]
        /\ ThreadFrame
        /\ UNCHANGED << disk, manifestCache >>

\* _generate_slides in a thread
ThreadSlides ==
    \E t \in Slots :
        /\ threads[t].stage = "slides"
        /\ slidePngs' = slidePngs \cup generated_slide_ids(yaml, deck_pages(yaml))
        /\ threads' = [threads EXCEPT ![t] = after_stage(threads[t])]
        /\ ThreadFrame
        /\ UNCHANGED << audioFiles, frames, clips, manifestFile, concatFile, outputs,
                        manifestCache >>

\* _generate_audio in a thread, up to the pool: the slide images are listed
\* and the segments built, or the stage raises
ThreadAudioBegin ==
    \E t \in Slots :
        /\ threads[t].stage = "audio"
        /\ threads[t].at = "start"
        /\ LET built == build_segments(yaml, 1, slidePngs)
           IN  threads' = [threads EXCEPT ![t] =
                   IF slidePngs = {} \/ built.err # <<>> THEN NoThread
                   ELSE [@ EXCEPT !.segs = built.segments, !.k = 1, !.at = "task"]]
        /\ ThreadFrame
        /\ UNCHANGED << disk, manifestCache >>

\* synthesize(segment) up to the engine call: `if audio_path.exists(): return`
ThreadAudioCheck ==
    \E t \in Slots :
        /\ threads[t].stage = "audio"
        /\ threads[t].at = "task"
        /\ threads[t].k <= Len(threads[t].segs)
        /\ threads' = [threads EXCEPT ![t] =
               IF @.segs[@.k].audio_path \in audioFiles
               THEN [@ EXCEPT !.k = @ + 1]
               ELSE [@ EXCEPT !.at = "synth"]]
        /\ ThreadFrame
        /\ UNCHANGED << disk, manifestCache >>

\* the file the thread writes next, <<>> when it is not about to write
next_file(th) ==
    IF th.stage = "audio" /\ th.at = "synth" THEN th.segs[th.k].audio_path
    ELSE IF th.stage = "audio" /\ th.at = "task" /\ th.k > Len(th.segs) THEN << "manifest" >>
    ELSE IF th.stage = "video" /\ th.at = "frame" /\ th.k <= Len(th.segs)
        THEN << "frame", chunk_name(th.segs[th.k]) >>
    ELSE IF th.stage = "video" /\ th.at = "clip" THEN << "clip", chunk_name(th.segs[th.k]) >>
    ELSE <<>>

\* the thread opens its next output file for writing: write_bytes of the
\* audio, write_text of the manifest, the save of the frame, the encoder's
\* overwrite of the clip
ThreadOpenFile ==
    \E t \in Slots :
        /\ threads[t].writing = <<>>
        /\ next_file(threads[t]) # <<>>
        /\ threads' = [threads EXCEPT ![t].writing = next_file(threads[t])]
        /\ ThreadFrame
        /\ UNCHANGED << disk, manifestCache >>

\* the write ends and the file is on disk; the thread goes on to what
\* follows the write in its stage function
ThreadCloseFile ==
    \E t \in Slots :
        LET th == threads[t]
        IN  /\ th.writing # <<>>
            /\ IF th.stage = "audio" /\ th.at = "synth" THEN
                    /\ audioFiles' = audioFiles \cup {th.writing}
                    /\ threads' = [threads EXCEPT ![t] =
                           [th EXCEPT !.writing = <<>>, !.k = @ + 1, !.at = "task"]]
                    /\ UNCHANGED << frames, clips, manifestFile, manifestCache >>
               ELSE IF th.stage = "audio" THEN
                    /\ manifestFile' = manifest_payload(th.segs)
                    /\ manifestCache' = th.segs
                    /\ threads' = [threads EXCEPT ![t] =
                           after_stage([th EXCEPT !.writing = <<>>])]
                    /\ UNCHANGED << audioFiles, frames, clips >>
               ELSE IF th.at = "frame" THEN
                    /\ frames' = frames \cup {chunk_name(th.segs[th.k])}
                    /\ threads' = [threads EXCEPT ![t] =
                           IF th.segs[th.k].audio_path \in audioFiles
                           THEN [th EXCEPT !.writing = <<>>, !.at = "clip"]
                           ELSE NoThread]
                    /\ UNCHANGED << audioFiles, clips, manifestFile, manifestCache >>
               ELSE /\ clips' = clips \cup {chunk_name(th.segs[th.k])}
                    /\ threads' = [threads EXCEPT ![t] =
                           [th EXCEPT !.writing = <<>>, !.k = @ + 1, !.at = "frame"]]
                    /\ UNCHANGED << audioFiles, frames, manifestFile, manifestCache >>
            /\ ThreadFrame
            /\ UNCHANGED << slidePngs, concatFile, outputs >>

\* _assemble_video in a thread, up to the loop: the segments come from
\* _manifest_cache or from the manifest file, or the stage raises
ThreadVideoBegin ==
    \E t \in Slots :
        /\ threads[t].stage = "video"
        /\ threads[t].at = "start"
        /\ IF manifestCache # <<>> THEN
                /\ threads' = [threads EXCEPT ![t] =
                       [@ EXCEPT !.segs = manifestCache, !.k = 1, !.at = "frame"]]
                /\ UNCHANGED manifestCache
           ELSE IF manifestFile = NoFile THEN
                /\ threads' = [threads EXCEPT ![t] = NoThread]
                /\ UNCHANGED manifestCache
           ELSE /\ manifestCache' = load_segments(manifestFile)
                /\ threads' = [threads EXCEPT ![t] =
                       IF no_segments(load_segments(manifestFile)) THEN NoThread
                       ELSE [@ EXCEPT !.segs = load_segments(manifestFile), !.k = 1,
                                      !.at = "frame"]]
        /\ ThreadFrame
        /\ UNCHANGED disk

\* _assemble_video after the loop: the concat list, the concatenation and
\* the mix
ThreadVideoEnd ==
    \E t \in Slots :
        /\ threads[t].stage = "video"
        /\ threads[t].at = "frame"
        /\ threads[t].k > Len(threads[t].segs)
        /\ concatFile' = [lines |-> concat_lines(threads[t].segs)]
        /\ outputs' = outputs \cup {"narration", "final"}
        /\ threads' = [threads EXCEPT ![t] = NoThread]
        /\ ThreadFrame
        /\ UNCHANGED << slidePngs, audioFiles, frames, clips, manifestFile, manifestCache >>

NextThreads ==
    \/ Click
    \/ ThreadSlides
    \/ ThreadAudioBegin
    \/ ThreadAudioCheck
    \/ ThreadOpenFile
    \/ ThreadCloseFile
    \/ ThreadVideoBegin
    \/ ThreadVideoEnd

SpecThreads == InitThreads /\ [][NextThreads]_vars

\* C14: at most one stage run at a time is writing the manifest file or a
\* per-chunk artifact file; in its weakest reading, no file is open for
\* writing in two stage runs at once.
C14_OneWriterPerFile ==
    \A t1 \in Slots, t2 \in Slots :
        (t1 # t2 /\ threads[t1].writing # <<>>) => threads[t1].writing # threads[t2].writing

\* ---------------------------------------------------------------- C15
\* the stage's caller has the exception of a failed synthesis task
SynthesisError(l) ==
    /\ ~l.ok
    /\ l.op = "audio"
    /\ l.err[1] = "engine_http_error"
    /\ l.err[2] \in EngineRequests

\* C15 as claimed: once the wait loop has raised on the first failed task,
\* the error reaches the stage's caller without waiting for the other
\* dispatched tasks, which go on in the background.
C15_ErrorAtFirstFailure ==
    pc = "audio_raised" => ENABLED AudioRaise

\* C15: a failure cancels no dispatched task; the error reaches the stage's
\* caller when every dispatched task has run to completion or failure, so no
\* task is queued or running, and no audio file is written, once the caller
\* has the error.
C15_ErrorAfterAllTasksEnded ==
    /\ [][ (pc = "audio_raised" /\ pc' = "idle") =>
              /\ SynthesisError(last')
              /\ DOMAIN task = DOMAIN segments
              /\ \A i \in DOMAIN task : task[i] \in {"done", "failed"}
              /\ manifestFile' = manifestFile ]_vars
    /\ [] (pc \notin {"audio_pool", "audio_raised"} =>
              \A i \in DOMAIN task : task[i] \notin {"queued", "calling"})

\* C15 witness: the caller has the synthesis error, and a task the wait loop
\* never looked at has called the engine and written its audio file.
C15_Witness ==
    /\ pc = "idle"
    /\ SynthesisError(last)
    /\ \E i \in DOMAIN task :
          /\ task[i] = "done"
          /\ i \notin consumed
          /\ i \in ttsLog
          /\ segments[i].audio_path \in audioFiles
    /\ \E j \in DOMAIN task : task[j] = "failed" /\ j \in consumed

\* ---------------------------------------------------------------- C16
\* the audio paths an error message names
error_audio_paths(err) == IF err[1] = "audio_not_found" THEN {err[2]} ELSE {}

\* the (slide_id, chunk_index) pairs an error message names: no message of
\* the program holds one
error_chunk_ids(err) == {}

\* the chunk texts an error message names
error_texts(err) ==
    IF err[1] = "engine_http_error" /\ err[2] = "audio_query" THEN {err[3]} ELSE {}

\* the chunks whose synthesis task failed
FailedChunks == { i \in DOMAIN task : task[i] = "failed" }

\* C16: when a synthesis task fails, the error the audio stage aborts with
\* identifies a failing chunk by slide_id and chunk_index or by its audio
\* path (or, read generously, by a text that only this chunk has).
C16_ErrorIdentifiesChunk ==
    (pc = "idle" /\ SynthesisError(last)) =>
        \E i \in FailedChunks :
            \/ segments[i].audio_path \in error_audio_paths(last.err)
            \/ << segments[i].slide_id, segments[i].chunk_index >> \in error_chunk_ids(last.err)
            \/ /\ segments[i].script_text \in error_texts(last.err)
               /\ \A j \in DOMAIN segments :
                      segments[j].script_text = segments[i].script_text => j = i

\* ---------------------------------------------------------------- C17
\* a step in which the audio stage or the assembly stage ends with an error
FatalStep == pc' = "idle" /\ ~last'.ok /\ last'.op \in {"audio", "assemble"}

\* a step of a run of the audio stage other than its successful end
AudioRunStep ==
    /\ pc \in {"audio_pool", "audio_raised"} \/ pc' \in {"audio_pool", "audio_raised"}
    /\ ~(pc' = "idle" /\ last'.ok)

\* a task of a run that follows a failure leaves the queue while its audio
\* file exists: it makes no synthesis call
RerunSkipsExisting ==
    \A i \in DOMAIN task :
        (/\ ~last.ok
         /\ i \in DOMAIN task'
         /\ task[i] = "queued"
         /\ task'[i] # "queued"
         /\ segments[i].audio_path \in audioFiles)
        => (task'[i] = "done" /\ ttsLog' = ttsLog /\ engineCalls' = engineCalls)

\* C17 as claimed: a fatal error of the audio or the assembly stage leaves
\* every audio file, frame, clip and the manifest file as they were and the
\* in-memory segment list at the value it had before the failed run; a
\* re-invoked audio stage makes no synthesis call for a chunk whose audio file
\* exists.
C17_FailureKeepsEverything ==
    /\ [][ FatalStep =>
              /\ audioFiles \subseteq audioFiles'
              /\ frames \subseteq frames'
              /\ clips \subseteq clips'
              /\ manifestFile' = manifestFile ]_vars
    /\ [][ AudioRunStep => manifestCache' = manifestCache ]_vars
    /\ [][ (FatalStep /\ last'.op = "assemble") =>
              manifestCache' = (IF source' = "cache" THEN segments' ELSE <<>>) ]_vars
    /\ [][ RerunSkipsExisting ]_vars

\* C17 amended: a fatal error removes no audio file, no frame and no clip
\* other than the one a failing encoder run was overwriting, and leaves the
\* manifest file as it was; the in-memory segment list keeps its value in a
\* failed audio run, and after a failed assembly run that found it empty it
\* holds what that run loaded from the manifest file; a re-invoked audio
\* stage makes no synthesis call for a chunk whose audio file exists.
C17_FailureKeepsArtifacts ==
    /\ [][ FatalStep =>
              /\ audioFiles \subseteq audioFiles'
              /\ frames \subseteq frames'
              /\ manifestFile' = manifestFile
              /\ IF last'.err = << "ffmpeg_failed", "clip" >>
                 THEN (clips \ {chunk_name(segments[asmPos])}) \subseteq clips'
                 ELSE clips \subseteq clips' ]_vars
    /\ [][ AudioRunStep => manifestCache' = manifestCache ]_vars
    /\ [][ (FatalStep /\ last'.op = "assemble") =>
              manifestCache' = (IF source' = "cache" THEN segments'
                                ELSE IF manifestFile = NoFile THEN <<>>
                                ELSE load_segments(manifestFile)) ]_vars
    /\ [][ RerunSkipsExisting ]_vars

\* C17 witness: the audio stage runs again after a failed synthesis; one
\* task found its audio file and made no call, another had to call the engine.
C17_Witness ==
    /\ pc = "audio_pool"
    /\ SynthesisError(last)
    /\ \E i \in DOMAIN task :
          task[i] = "done" /\ i \notin ttsLog /\ segments[i].audio_path \in audioFiles
    /\ \E j \in DOMAIN task : j \in ttsLog

\* ---------------------------------------------------------------- C18
\* no slide of the script source carries an id
NoSlideHasId == \A k \in DOMAIN yaml : yaml[k].id = NoId

\* the slide images of a rasterization of the same deck and script are on disk
Rasterized == generated_slide_ids(yaml, deck_pages(yaml)) \subseteq slidePngs

\* C18: when no slide carries an id and the deck was rasterized, the audio
\* stage gives every segment the 1-based position of its slide as slide_id
\* and that slide's image, and does not fail for a missing slide image.
C18_NoIdSlidesKeepPosition ==
    (NoSlideHasId /\ Rasterized) =>
        /\ AudioBuilt =>
              \A i \in DOMAIN segments :
                  /\ segments[i].slide_id = SlideOfSegment(i)
                  /\ segments[i].slide_image = SlidePath(SlideOfSegment(i))
        /\ (pc = "idle" /\ last.op = "audio" /\ ~last.ok) =>
              last.err[1] # "slide_png_not_found"

====
